---- MODULE Spec2Model ----
\* State machine of hello-triangle: main() (window + Renderer::new + winit
\* event loop) driving Renderer::render, for both the single-sample renderer
\* (src/src/renderer.rs) and the MSAA renderer (src/hello-triangle-msaa).
EXTENDS Integers, Sequences, FiniteSets, TLC

\* bound: number of RedrawRequested events handled
MaxRedraws == 3

\* window client sizes the window system may report
Sizes == {<<800, 600>>, <<400, 300>>}

\* surface formats an adapter may report as its default for the surface
Formats == {"Bgra8UnormSrgb", "Rgba8UnormSrgb"}

\* results of Surface::get_current_texture
AcquireResults == {"Ok", "Lost", "Outdated", "Timeout", "OutOfMemory"}

\* const SAMPLE_COUNT: u32 = 4;
SAMPLE_COUNT == 4

\* surface textures handed out by get_current_texture are single-sampled
SurfaceSampleCount == 1

\* wgpu::Color::BLACK
BLACK == <<0, 0, 0, 1>>

VARIABLES
    phase,          \* position of main(): start/window/adapter/running/aborted/exited
    windowShown,    \* WindowBuilder::build has created (and shown) the window
    msaa,           \* which renderer variant is built
    win,            \* current window client size
    cfg,            \* surface configuration applied by surface.configure
    pipe,           \* render_pipeline: color target format and sample count
    msTex,          \* texture behind texture_view_for_multisampling (MSAA only)
    redrawPending,  \* window.request_redraw() outstanding
    exitReq,        \* *control_flow == ControlFlow::Exit
    closeSeen,      \* a CloseRequested event has been delivered
    attempts,       \* number of Renderer::render invocations
    frames,         \* number of render invocations that returned Ok
    lastResult,     \* result of the most recent render invocation
    lostPending,    \* a Lost acquisition has not been followed by a reconfigure
    log,            \* GPU calls made by render, in order
    stderr          \* lines printed by eprintln!

vars == <<phase, windowShown, msaa, win, cfg, pipe, msTex, redrawPending,
          exitReq, closeSeen, attempts, frames, lastResult, lostPending,
          log, stderr>>

NoCfg == [format |-> "none", w |-> 0, h |-> 0]

NoTex == [format |-> "none", w |-> 0, h |-> 0, samples |-> 0]

\* surface.get_default_config(&adapter, size.width, size.height)
DefaultConfig(fmt, size) == [format |-> fmt, w |-> size[1], h |-> size[2]]

\* mutant: the MSAA pipeline keeps the single-sample count
PipelineSampleCountSingle(isMsaa) == 1

\* multisample.count in create_render_pipeline
PipelineSampleCount(isMsaa) == IF isMsaa THEN SAMPLE_COUNT ELSE 1

\* create_render_pipeline: targets[0].format = surface_config.format
PipelineOf(fmt, isMsaa) == [format |-> fmt, samples |-> PipelineSampleCount(isMsaa)]

\* device.create_texture for texture_view_for_multisampling
MsTextureOf(fmt, size) ==
    [format |-> fmt, w |-> size[1], h |-> size[2], samples |-> SAMPLE_COUNT]

\* one recorded GPU call of render
Entry(op, f, res, colors, verts, insts, nvb, nbufs) ==
    [op |-> op, f |-> f, res |-> res, colors |-> colors, verts |-> verts,
     insts |-> insts, nvb |-> nvb, nbufs |-> nbufs]

\* mutant: the MSAA pass keeps the single-sample attachment (no resolve)
ColorAttachmentNoResolve(isMsaa) ==
    [view |-> "view", resolve |-> "none", load |-> BLACK, store |-> TRUE]

\* RenderPassColorAttachment of render's begin_render_pass
ColorAttachment(isMsaa) ==
    IF isMsaa
    THEN [view |-> "texture_view_for_multisampling", resolve |-> "view",
          load |-> BLACK, store |-> TRUE]
    ELSE [view |-> "view", resolve |-> "none", load |-> BLACK, store |-> TRUE]

\* mutant: presents the acquired image before submitting the commands
RenderOpsPresentFirst(f, res, isMsaa) ==
    IF res # "Ok"
    THEN << Entry("get_current_texture", f, res, <<>>, <<>>, <<>>, 0, 0) >>
    ELSE << Entry("get_current_texture", f, res, <<>>, <<>>, <<>>, 0, 0),
            Entry("create_command_encoder", f, res, <<>>, <<>>, <<>>, 0, 0),
            Entry("begin_render_pass", f, res, <<ColorAttachment(isMsaa)>>, <<>>, <<>>, 0, 0),
            Entry("set_pipeline", f, res, <<>>, <<>>, <<>>, 0, 0),
            Entry("draw", f, res, <<>>, <<0, 3>>, <<0, 1>>, 0, 0),
            Entry("present", f, res, <<>>, <<>>, <<>>, 0, 0),
            Entry("submit", f, res, <<>>, <<>>, <<>>, 0, 1) >>

\* mutant: creates the command encoder before acquiring the image
RenderOpsEncoderFirst(f, res, isMsaa) ==
    IF res # "Ok"
    THEN << Entry("create_command_encoder", f, res, <<>>, <<>>, <<>>, 0, 0),
            Entry("get_current_texture", f, res, <<>>, <<>>, <<>>, 0, 0) >>
    ELSE << Entry("create_command_encoder", f, res, <<>>, <<>>, <<>>, 0, 0),
            Entry("get_current_texture", f, res, <<>>, <<>>, <<>>, 0, 0),
            Entry("begin_render_pass", f, res, <<ColorAttachment(isMsaa)>>, <<>>, <<>>, 0, 0),
            Entry("set_pipeline", f, res, <<>>, <<>>, <<>>, 0, 0),
            Entry("draw", f, res, <<>>, <<0, 3>>, <<0, 1>>, 0, 0),
            Entry("submit", f, res, <<>>, <<>>, <<>>, 0, 1),
            Entry("present", f, res, <<>>, <<>>, <<>>, 0, 0) >>

\* Renderer::render: calls made in invocation f when acquisition yields res
RenderOps(f, res, isMsaa) ==
    IF res # "Ok"
    THEN << Entry("get_current_texture", f, res, <<>>, <<>>, <<>>, 0, 0) >>
    ELSE << Entry("get_current_texture", f, res, <<>>, <<>>, <<>>, 0, 0),
            Entry("create_command_encoder", f, res, <<>>, <<>>, <<>>, 0, 0),
            Entry("begin_render_pass", f, res, <<ColorAttachment(isMsaa)>>, <<>>, <<>>, 0, 0),
            Entry("set_pipeline", f, res, <<>>, <<>>, <<>>, 0, 0),
            Entry("draw", f, res, <<>>, <<0, 3>>, <<0, 1>>, 0, 0),
            Entry("submit", f, res, <<>>, <<>>, <<>>, 0, 1),
            Entry("present", f, res, <<>>, <<>>, <<>>, 0, 0) >>

\* mutant: every acquisition error exits the loop
ControlFlowAfterAnyError(res) == IF res # "Ok" THEN "Exit" ELSE "Poll"

\* the match on state.render() in the RedrawRequested arm
ControlFlowAfter(res) == IF res = "OutOfMemory" THEN "Exit" ELSE "Poll"

\* Err(e) => eprintln!("{:?}", e)
Logged(res) == res \in {"Outdated", "Timeout"}

Init ==
    /\ phase = "start"
    /\ windowShown = FALSE
    /\ msaa \in BOOLEAN
    /\ win \in Sizes
    /\ cfg = NoCfg
    /\ pipe = [format |-> "none", samples |-> 0]
    /\ msTex = NoTex
    /\ redrawPending = FALSE
    /\ exitReq = FALSE
    /\ closeSeen = FALSE
    /\ attempts = 0
    /\ frames = 0
    /\ lastResult = "none"
    /\ lostPending = FALSE
    /\ log = <<>>
    /\ stderr = <<>>

\* WindowBuilder::new().build(&event_loop).unwrap()
CreateWindow ==
    /\ phase = "start"
    /\ phase' = "window"
    /\ windowShown' = TRUE
    /\ UNCHANGED <<msaa, win, cfg, pipe, msTex, redrawPending, exitReq,
                   closeSeen, attempts, frames, lastResult, lostPending, log, stderr>>

\* instance.request_adapter(..).await.unwrap(): None panics
RequestAdapter ==
    /\ phase = "window"
    /\ \E ok \in BOOLEAN : phase' = IF ok THEN "adapter" ELSE "aborted"
    /\ UNCHANGED <<windowShown, msaa, win, cfg, pipe, msTex, redrawPending, exitReq,
                   closeSeen, attempts, frames, lastResult, lostPending, log, stderr>>

\* adapter.request_device(..).await.unwrap() and the rest of Renderer::new
RequestDevice ==
    /\ phase = "adapter"
    /\ \E ok \in BOOLEAN :
         IF ok
         THEN \E fmt \in Formats :
                /\ phase' = "running"
                /\ cfg' = DefaultConfig(fmt, win)
                /\ pipe' = PipelineOf(fmt, msaa)
                /\ msTex' = IF msaa THEN MsTextureOf(fmt, win) ELSE NoTex
         ELSE /\ phase' = "aborted"
              /\ UNCHANGED <<cfg, pipe, msTex>>
    /\ UNCHANGED <<windowShown, msaa, win, redrawPending, exitReq,
                   closeSeen, attempts, frames, lastResult, lostPending, log, stderr>>

\* Event::MainEventsCleared => window.request_redraw()
MainEventsCleared ==
    /\ phase = "running"
    /\ ~exitReq
    /\ redrawPending' = TRUE
    /\ UNCHANGED <<phase, windowShown, msaa, win, cfg, pipe, msTex, exitReq,
                   closeSeen, attempts, frames, lastResult, lostPending, log, stderr>>

\* Event::RedrawRequested => match state.render() { .. }
RedrawRequested ==
    /\ phase = "running"
    /\ ~exitReq
    /\ redrawPending
    /\ attempts < MaxRedraws
    /\ \E res \in AcquireResults :
         /\ attempts' = attempts + 1
         /\ redrawPending' = FALSE
         /\ lastResult' = res
         /\ log' = log \o RenderOps(attempts + 1, res, msaa)
         /\ frames' = IF res = "Ok" THEN frames + 1 ELSE frames
         /\ exitReq' = (ControlFlowAfter(res) = "Exit")
         /\ stderr' = IF Logged(res) THEN Append(stderr, res) ELSE stderr
         /\ lostPending' = (lostPending \/ res = "Lost")
    /\ UNCHANGED <<phase, windowShown, msaa, win, cfg, pipe, msTex, closeSeen>>

\* WindowEvent::Resized: falls into the `_ => {}` arm
Resized ==
    /\ phase = "running"
    /\ ~exitReq
    /\ \E s \in Sizes \ {win} : win' = s
    /\ UNCHANGED <<phase, windowShown, msaa, cfg, pipe, msTex, redrawPending, exitReq,
                   closeSeen, attempts, frames, lastResult, lostPending, log, stderr>>

\* WindowEvent::CloseRequested: falls into the `_ => {}` arm
CloseRequested ==
    /\ phase = "running"
    /\ ~exitReq
    /\ closeSeen' = TRUE
    /\ UNCHANGED <<phase, windowShown, msaa, win, cfg, pipe, msTex, redrawPending,
                   exitReq, attempts, frames, lastResult, lostPending, log, stderr>>

\* winit leaves run() once control_flow is ControlFlow::Exit
LoopExit ==
    /\ phase = "running"
    /\ exitReq
    /\ phase' = "exited"
    /\ UNCHANGED <<windowShown, msaa, win, cfg, pipe, msTex, redrawPending, exitReq,
                   closeSeen, attempts, frames, lastResult, lostPending, log, stderr>>

Next ==
    \/ CreateWindow
    \/ RequestAdapter
    \/ RequestDevice
    \/ MainEventsCleared
    \/ RedrawRequested
    \/ Resized
    \/ CloseRequested
    \/ LoopExit

Spec == Init /\ [][Next]_vars

\* ---- properties ----

\* entries of invocation f, in order
FrameEntries(f) == SelectSeq(log, LAMBDA e : e.f = f)

\* calls of invocation f, in order
OpsOf(f) == [i \in 1..Len(FrameEntries(f)) |-> FrameEntries(f)[i].op]

\* Acquiring -> Recording -> Submitted -> Presented
Cycle == <<"get_current_texture", "create_command_encoder", "begin_render_pass",
           "set_pipeline", "draw", "submit", "present">>

\* entries of invocation f whose call is op
CountOp(f, op) == Len(SelectSeq(FrameEntries(f), LAMBDA e : e.op = op))

\* C1: every render invocation runs acquire, record (encoder, pass, pipeline,
\* draw), submit, present in that order, and invocations never interleave:
\* all calls of invocation N precede all calls of invocation N+1.
C1_PhaseOrder ==
    /\ \A i, j \in DOMAIN log : i < j => log[i].f <= log[j].f
    /\ \A f \in 1..attempts :
         \/ OpsOf(f) = Cycle
         \/ OpsOf(f) = <<"get_current_texture">> /\ FrameEntries(f)[1].res # "Ok"

\* C1 witness: two invocations have completed a full cycle
C1_Witness == frames >= 2

\* C2 (as claimed): a Lost acquisition is followed by a surface reconfigure
\* before the next render's acquisition.
C2_ReconfigureAfterLost ==
    [][(attempts' = attempts + 1) => ~lostPending]_vars

\* C3: OutOfMemory, and only OutOfMemory, requests ControlFlow::Exit, after
\* which no further render happens; Outdated/Timeout are printed and the loop
\* keeps running; Lost keeps the loop running.
C3_OomTerminates ==
    /\ exitReq <=> lastResult = "OutOfMemory"
    /\ phase = "exited" => lastResult = "OutOfMemory"
    /\ Logged(lastResult) => ~exitReq /\ stderr # <<>> /\ stderr[Len(stderr)] = lastResult
    /\ lastResult = "Lost" => ~exitReq

\* C3 witness: the loop has exited after an out-of-memory acquisition
C3_Witness == phase = "exited" /\ attempts >= 2

\* C4: each successful invocation opens one encoder and one pass with one
\* color attachment cleared to opaque black and stored, binds the pipeline,
\* draws vertices [0,3) instances [0,1) with no vertex buffers, and submits
\* one command buffer; the MSAA variant renders into the multisampled view
\* resolving into the acquired view, the other into the acquired view.
C4_SinglePassSingleDraw ==
    \A f \in 1..attempts :
      FrameEntries(f)[1].res = "Ok" =>
        /\ CountOp(f, "create_command_encoder") = 1
        /\ CountOp(f, "begin_render_pass") = 1
        /\ CountOp(f, "set_pipeline") = 1
        /\ CountOp(f, "draw") = 1
        /\ CountOp(f, "submit") = 1
        /\ \A e \in {FrameEntries(f)[k] : k \in 1..Len(FrameEntries(f))} :
             /\ e.op = "begin_render_pass" =>
                  /\ Len(e.colors) = 1
                  /\ e.colors[1].load = <<0, 0, 0, 1>>
                  /\ e.colors[1].store = TRUE
                  /\ e.colors[1].view = IF msaa THEN "texture_view_for_multisampling" ELSE "view"
                  /\ e.colors[1].resolve = IF msaa THEN "view" ELSE "none"
             /\ e.op = "draw" => e.verts = <<0, 3>> /\ e.insts = <<0, 1>> /\ e.nvb = 0
             /\ e.op = "submit" => e.nbufs = 1

\* C4 witness: a successful frame exists
C4_Witness == frames >= 1 /\ lastResult = "Ok"

\* C5: once built, the pipeline's color target format equals the surface
\* format and its sample count equals that of the attachment it renders into
\* (the 4x multisampled texture of the surface format, or the 1x surface image).
C5_FormatSampleMatch ==
    phase \in {"running", "exited"} =>
      /\ pipe.format = cfg.format
      /\ msaa => /\ msTex.samples > 1
                 /\ msTex.samples = pipe.samples
                 /\ msTex.samples = SAMPLE_COUNT
                 /\ msTex.format = cfg.format
      /\ ~msaa => pipe.samples = 1 /\ pipe.samples = SurfaceSampleCount

\* C5 witness: an MSAA renderer has been built
C5_Witness == phase = "running" /\ msaa

\* C6 (as claimed): no frame is rendered with a surface configuration (or
\* multisampled texture) whose size differs from the window's client size.
C6_NoStaleSize ==
    [][(frames' = frames + 1) =>
         /\ cfg.w = win[1] /\ cfg.h = win[2]
         /\ msaa => msTex.w = win[1] /\ msTex.h = win[2]]_vars

\* C7 (as claimed): once close is requested no further frame is rendered.
C7_CloseStops ==
    [][closeSeen => frames' = frames]_vars

\* C8 (as claimed): a startup failure aborts before any window is shown.
C8_AbortBeforeWindow ==
    phase = "aborted" => ~windowShown /\ attempts = 0

\* C10: a failed acquisition records no encoder, submit or present, and leaves
\* the surface configuration, pipeline and multisampled texture unchanged.
C10_FailedAcquireNoEffect ==
    [][(attempts' = attempts + 1 /\ lastResult' # "Ok") =>
         /\ UNCHANGED <<cfg, pipe, msTex, frames>>
         /\ Len(log') = Len(log) + 1
         /\ log'[Len(log')].op = "get_current_texture"]_vars

\* C10 witness: a failed acquisition has occurred after a successful frame
C10_Witness == lastResult \in {"Lost", "Outdated", "Timeout", "OutOfMemory"} /\ frames >= 1

\* C9 (as claimed): surface reconfiguration is an operation taking (w,h) that
\* callers can apply on every resize: whenever the applied configuration's
\* size differs from the window size, a step reapplying the configuration at
\* (w,h) (same format) is available, after which reapplying it again changes
\* nothing.
C9_ConfigureAvailable ==
    (phase = "running" /\ ~exitReq /\ <<cfg.w, cfg.h>> # win) =>
      ENABLED (Next /\ cfg' = [cfg EXCEPT !.w = win[1], !.h = win[2]]
                    /\ cfg' # cfg)

====
